---------------------------- MODULE Spec2Model ----------------------------
(***************************************************************************)
(* DigitDraw (src/main.py): a GTK application whose UI thread draws on a   *)
(* cairo surface and drives two classifiers.  The statistical classifier   *)
(* runs in a GLib idle callback on the UI thread; the neural classifier    *)
(* runs in a separate process (_tf_worker) reached through a duplex Pipe,  *)
(* whose answers a listener thread (tf_result_waiter) marshals back onto   *)
(* the UI idle queue.                                                      *)
(*                                                                         *)
(* Abstraction of bitmaps.  A surface of width x height ARGB pixels is     *)
(* kept as its size and the grey level (0 = black ink, 255 = white paper)  *)
(* of NCells sampling cells; Image.resize((n, n), LANCZOS) changes the     *)
(* size and keeps the level of each cell, convert("L").tobytes() yields    *)
(* the cell levels as bytes.  The real feature vectors have 64 and 784     *)
(* components; NCells bounds that number.                                  *)
(***************************************************************************)
EXTENDS Integers, Sequences, FiniteSets, TLC

(***************************************************************************)
(* Bounds of the model.                                                    *)
(***************************************************************************)
\* number of sampling cells of a bitmap
NCells == 2

\* grey level of untouched paper: set_source_rgb(1.0, 1.0, 1.0)
White == 255
\* grey level of full ink: set_source_rgb(0.0, 0.0, 0.0)
Black == 0
\* the levels a stroke can leave in a cell
InkLevels == {Black}

\* Python's None (also the pipe sentinel), a value unlike every image,
\* result and point
None == [none |-> TRUE]
\* the placeholder text "..." of both labels
Placeholder == [text |-> "..."]

\* size of the preview handed to the statistical classifier
Size8 == 8
\* size of the image handed to the neural classifier
Size28 == 28
\* divisor of the 64-feature path
SkScale == 16
\* divisor of the 784-feature path
TfScale == 255
\* divisor of the 64-feature path of draw_digits/main.py
DdScale == 16
\* number of classes of the neural model
NumClasses == 10

Cells == 1..NCells
\* the widths and heights a resize event reports
Dims == {-1, 0, 200}

(***************************************************************************)
(* Pure functions of the source.                                           *)
(***************************************************************************)
\* ~b & 0xFF for a byte b
InvertByte(b) == ((-b) - 1) % 256

\* A Python float that is the quotient of two integers, kept exact.
Ratio(n, d) == [num |-> n, den |-> d]
IsZero(f) == f.num = 0
IsPositive(f) == f.num > 0

\* [(~b & 0xFF) / 16.0 for b in grayscale_image_8x8.tobytes()]
SkFloats(bytes) == [i \in DOMAIN bytes |-> Ratio(InvertByte(bytes[i]), SkScale)]

\* [(~b & 0xFF) / 255.0 for b in grayscale_image_28x28.tobytes()]
TfFloats(bytes) == [i \in DOMAIN bytes |-> Ratio(InvertByte(bytes[i]), TfScale)]

\* [(~b & 0xFF) // 16.0 for b in grayscale_image_8x8.tobytes()] of
\* draw_digits/main.py: floor division, whose result is a whole float
DdFloats(bytes) ==
    [i \in DOMAIN bytes |-> Ratio(InvertByte(bytes[i]) \div DdScale, 1)]

\* a variant of line 146 that looks at the first value only
AllZeroFirstOnly(floats) == IsZero(floats[1])

\* all(f == 0 for f in floats)
AllZero(floats) == \A i \in DOMAIN floats : IsZero(floats[i])

\* any(f > 0 for f in data)
AnyPositive(floats) == \E i \in DOMAIN floats : IsPositive(floats[i])

RECURSIVE SumNum(_)
SumNum(floats) ==
    IF floats = << >> THEN 0 ELSE Head(floats).num + SumNum(Tail(floats))

\* self._clf.predict([floats])[0]: a deterministic stub of the SVM, a digit
ClfPredict(floats) == SumNum(floats) % NumClasses

\* predict(floats): a deterministic stub of the neural model, the confidence
\* of each class 0..9 as an exact fraction (a one-hot distribution)
TfPredict(floats) ==
    [k \in 1..NumClasses |->
        IF k - 1 = SumNum(floats) % NumClasses THEN Ratio(1, 1) ELSE Ratio(0, 1)]

\* int(pd * 100)
Percent(pd) == (pd.num * 100) \div pd.den

\* Image.frombytes("RGBA", size, data)
ImageOf(w, h, d) == [width |-> w, height |-> h, data |-> d]

\* image.resize((n, n), Image.Resampling.LANCZOS)
ResizeTo(image, n) == ImageOf(n, n, image.data)

\* image.convert("L").tobytes()
GrayBytes(image) == image.data

\* a freshly painted surface content
Blank == [i \in Cells |-> White]

\* MainWindow.get_image_data
GetImageData(surf) == IF surf = None THEN None ELSE surf

\* image_8x8 of _update_sklearn_prediction
SkPreview(image) == ResizeTo(image, Size8)

\* whether _update_sklearn_prediction calls self._clf.predict
SkInvokes(image) == ~AllZero(SkFloats(GrayBytes(SkPreview(image))))

\* the text _update_sklearn_prediction puts on the statistical label
\* through set_sklearn_predicted_digit
SkLabel(image) ==
    IF SkInvokes(image)
    THEN [digit |-> ClfPredict(SkFloats(GrayBytes(SkPreview(image))))]
    ELSE Placeholder

\* whether _tf_worker calls predict for a task image
TfInvokes(image) == AnyPositive(TfFloats(GrayBytes(ResizeTo(image, Size28))))

\* a variant of line 322 that sends back the task image instead of
\* image_28x28
TfResultOfTaskImage(image) ==
    [image |-> image,
     predicted_digits |->
        IF AnyPositive(TfFloats(GrayBytes(ResizeTo(image, Size28))))
        THEN [probs |-> TfPredict(TfFloats(GrayBytes(ResizeTo(image, Size28))))]
        ELSE None]

\* the worker's answer to a task image: (image_28x28, predicted_digits)
TfResult(image) ==
    LET image_28x28 == ResizeTo(image, Size28)
        data == TfFloats(GrayBytes(image_28x28))
    IN  [image |-> image_28x28,
         predicted_digits |->
            IF TfInvokes(image) THEN [probs |-> TfPredict(data)] ELSE None]

\* the text _on_tf_prediction puts on the neural label
TfLabel(result) ==
    IF result = None THEN Placeholder
    ELSE IF result.predicted_digits = None THEN Placeholder
    ELSE [percents |->
            [k \in 1..NumClasses |-> Percent(result.predicted_digits.probs[k])]]

(***************************************************************************)
(* State.                                                                  *)
(***************************************************************************)
VARIABLES
    phase,                      \* DrawingApp: "init", "running", "closed",
                                \* "joining", "exited", "aborted"
    model_engine,               \* the model_engine argument of _tf_worker
    wpc,                        \* position of the _tf_worker process
    w_task,                     \* task_image held by _tf_worker, or None
    reqPipe,                    \* messages sent by the UI, unread by the worker
    respPipe,                   \* messages sent by the worker, unread by the UI
    lpc,                        \* position of the tf_result_waiter thread
    is_waiting_tf_result,       \* MainWindow.is_waiting_tf_result
    surface,                    \* MainWindow._surface: None or an image
    last_point,                 \* MainWindow._last_point: None or a point
    sklearn_prediction_pending, \* MainWindow._sklearn_prediction_pending
    tf_prediction_pending,      \* MainWindow._tf_prediction_pending
    sklearn_predicted_label,    \* text of sklearn_predicted_label
    tf_predicted_label,         \* text of tf_predicted_label
    sklearn_preview_image,      \* image shown by sklearn_preview_image
    tf_preview_image,           \* image shown by tf_preview_image
    idle,                       \* GLib idle queue of the UI thread, oldest first
    clf_called,                 \* history: the last statistical callback run
                                \* called self._clf.predict
    predict_called,             \* history: the worker called predict for the
                                \* last task it processed
    tf_inflight,                \* history: the snapshot sent to the worker and
                                \* not yet delivered to _on_tf_prediction
    after_clear,                \* history: clear() painted the surface and no
                                \* drag event happened since
    w_acks,                     \* history: sentinels the worker has sent
    w_late,                     \* history: the worker sent a result after a
                                \* sentinel
    norm_in,                    \* a normalization site and a surface byte
    norm_out                    \* the float that site computes from the byte

vars == <<phase, model_engine, wpc, w_task, reqPipe, respPipe, lpc,
          is_waiting_tf_result, surface, last_point,
          sklearn_prediction_pending, tf_prediction_pending,
          sklearn_predicted_label, tf_predicted_label,
          sklearn_preview_image, tf_preview_image, idle,
          clf_called, predict_called, tf_inflight, after_clear, w_acks, w_late,
          norm_in, norm_out>>

normVars == <<norm_in, norm_out>>
appVars == <<phase, model_engine>>
workerVars == <<wpc, w_task, predict_called, w_acks, w_late>>
listenerVars == <<lpc>>
canvasVars == <<surface, last_point, after_clear>>
skVars == <<sklearn_prediction_pending, sklearn_predicted_label,
            sklearn_preview_image, clf_called>>
tfVars == <<tf_prediction_pending, tf_predicted_label, tf_preview_image,
            tf_inflight>>

\* the worker process has ended, whichever way; its end of the pipe is closed
Terminated == {"stopped", "returned", "failed", "killed"}
WorkerTerminated == wpc \in Terminated

\* the engine DrawingApp.__init__ passes to _tf_worker
AppEngine == "ov"

\* the state after DrawingApp.__init__, for the engine it is given
InitWith(engine) ==
    /\ phase = "init"
    /\ model_engine = engine
    /\ wpc = "loading"
    /\ w_task = None
    /\ reqPipe = << >>
    /\ respPipe = << >>
    /\ lpc = "unstarted"
    /\ is_waiting_tf_result = FALSE
    /\ surface = None
    /\ last_point = None
    /\ sklearn_prediction_pending = FALSE
    /\ tf_prediction_pending = FALSE
    /\ sklearn_predicted_label = Placeholder
    /\ tf_predicted_label = Placeholder
    /\ sklearn_preview_image = None
    /\ tf_preview_image = None
    /\ idle = << >>
    /\ clf_called = FALSE
    /\ predict_called = FALSE
    /\ tf_inflight = None
    /\ after_clear = FALSE
    /\ w_acks = 0
    /\ w_late = FALSE

Init ==
    /\ InitWith(AppEngine)
    /\ norm_in = None
    /\ norm_out = None

(***************************************************************************)
(* The UI thread: MainWindow and DrawingApp handlers.  A handler runs to   *)
(* completion before the GTK main loop dispatches the next one.            *)
(***************************************************************************)
Point(c) == [cell |-> c]
Min(a, b) == IF a < b THEN a ELSE b
Between(i, a, b) == (a <= i /\ i <= b) \/ (b <= i /\ i <= a)

\* the idle sources: _update_sklearn_prediction, _on_tf_prediction(result)
SkCallback == [cb |-> "sk"]
TfCallback(result) == [cb |-> "tf", result |-> result]

\* context.stroke() of a black line from cell a to cell b
Stroke(surf, a, b, ink) ==
    [surf EXCEPT !.data =
        [i \in Cells |-> IF Between(i, a, b) THEN Min(@[i], ink) ELSE @[i]]]

\* MainWindow._draw_line: the surface it leaves
DrawLineSurface(surf, lp, c, ink) ==
    IF surf = None THEN surf
    ELSE IF lp = None THEN surf
    ELSE Stroke(surf, lp.cell, c, ink)

\* MainWindow._draw_line: the _last_point it leaves
DrawLineLast(surf, lp, c) == IF surf = None THEN lp ELSE Point(c)

\* a variant of line 154 without the pending test
SkSchedulesAlways == TRUE

\* a variant of line 154 that also waits for the neural request to finish
SkSchedulesWhenNeuralFree == ~sklearn_prediction_pending /\ ~tf_prediction_pending

\* update_prediction, line 154: whether the statistical callback is scheduled
SkSchedules == ~sklearn_prediction_pending

\* a variant of line 158 without the pending test
TfEntersAlways == TRUE

\* update_prediction, line 158: whether the neural path is entered
TfEnters == ~tf_prediction_pending

\* MainWindow.update_prediction on surface surf; tf_worker_conn.send raises
\* BrokenPipeError, after the flag was set, once the worker process has ended
UpdatePrediction(surf) ==
    /\ IF SkSchedules
       THEN /\ sklearn_prediction_pending' = TRUE
            /\ idle' = Append(idle, SkCallback)
       ELSE UNCHANGED <<sklearn_prediction_pending, idle>>
    /\ IF TfEnters
       THEN IF GetImageData(surf) = None
            THEN /\ tf_prediction_pending' = FALSE
                 /\ UNCHANGED <<reqPipe, tf_inflight>>
            ELSE /\ tf_prediction_pending' = TRUE
                 /\ IF WorkerTerminated
                    THEN UNCHANGED <<reqPipe, tf_inflight>>
                    ELSE /\ reqPipe' = Append(reqPipe, GetImageData(surf))
                         /\ tf_inflight' = GetImageData(surf)
       ELSE UNCHANGED <<tf_prediction_pending, reqPipe, tf_inflight>>

\* what update_prediction leaves alone
UpdateFrame ==
    UNCHANGED <<normVars, appVars, workerVars, listenerVars, respPipe, is_waiting_tf_result,
                sklearn_predicted_label, sklearn_preview_image, clf_called,
                tf_predicted_label, tf_preview_image>>

\* DrawingApp.do_activate with no window yet: MainWindow.__init__
Activate ==
    /\ phase = "init"
    /\ phase' = "running"
    /\ surface' = None
    /\ last_point' = None
    /\ sklearn_predicted_label' = Placeholder
    /\ sklearn_prediction_pending' = FALSE
    /\ tf_predicted_label' = TfLabel(None)
    /\ tf_prediction_pending' = FALSE
    /\ is_waiting_tf_result' = TRUE
    /\ lpc' = "loop"
    /\ UNCHANGED <<normVars, model_engine, workerVars, reqPipe, respPipe, idle, after_clear,
                   sklearn_preview_image, tf_preview_image, clf_called, tf_inflight>>

\* MainWindow.clear on surface surf (called by _on_clear and _on_resize)
Clear(surf) ==
    IF surf = None
    THEN /\ surface' = surf
         /\ UNCHANGED <<after_clear, sklearn_prediction_pending, idle,
                        tf_prediction_pending, reqPipe, tf_inflight>>
    ELSE /\ surface' = [surf EXCEPT !.data = Blank]
         /\ after_clear' = TRUE
         /\ UpdatePrediction([surf EXCEPT !.data = Blank])

\* MainWindow._on_clear
OnClear ==
    /\ phase = "running"
    /\ Clear(surface)
    /\ UNCHANGED last_point
    /\ UpdateFrame

\* a variant of _on_resize without the test of line 236
OnResizeUnchecked(width, height) ==
    /\ phase = "running"
    /\ Clear(ImageOf(width, height, [i \in Cells |-> 0]))
    /\ UNCHANGED last_point
    /\ UpdateFrame

\* MainWindow._on_resize(width, height)
OnResize(width, height) ==
    /\ phase = "running"
    /\ IF width <= 0 \/ height <= 0
       THEN UNCHANGED <<surface, after_clear, sklearn_prediction_pending, idle,
                        tf_prediction_pending, reqPipe, tf_inflight>>
       ELSE Clear(ImageOf(width, height, [i \in Cells |-> 0]))
    /\ UNCHANGED last_point
    /\ UpdateFrame

\* MainWindow._on_drag_begin at cell c; GestureDrag starts a gesture only when
\* none is active
OnDragBegin(c, ink) ==
    /\ phase = "running"
    /\ last_point = None
    /\ surface' = DrawLineSurface(surface, Point(c), c, ink)
    /\ last_point' = DrawLineLast(surface, Point(c), c)
    /\ after_clear' = FALSE
    /\ UNCHANGED <<sklearn_prediction_pending, idle, tf_prediction_pending,
                   reqPipe, tf_inflight>>
    /\ UpdateFrame

\* MainWindow._on_drag_update at cell c, within a gesture
OnDragUpdate(c, ink) ==
    /\ phase = "running"
    /\ last_point # None
    /\ surface' = DrawLineSurface(surface, last_point, c, ink)
    /\ last_point' = DrawLineLast(surface, last_point, c)
    /\ after_clear' = FALSE
    /\ UpdatePrediction(DrawLineSurface(surface, last_point, c, ink))
    /\ UpdateFrame

\* MainWindow._on_drag_end, which ends the gesture
OnDragEnd ==
    /\ phase = "running"
    /\ last_point # None
    /\ last_point' = None
    /\ after_clear' = FALSE
    /\ UpdatePrediction(surface)
    /\ UNCHANGED surface
    /\ UpdateFrame

\* the idle source _update_sklearn_prediction, dispatched once and removed
UpdateSklearnPrediction ==
    /\ phase \in {"running", "closed"}
    /\ idle # << >>
    /\ Head(idle) = SkCallback
    /\ idle' = Tail(idle)
    /\ IF GetImageData(surface) = None
       THEN UNCHANGED skVars
       ELSE /\ sklearn_preview_image' = SkPreview(GetImageData(surface))
            /\ clf_called' = SkInvokes(GetImageData(surface))
            /\ sklearn_predicted_label' = SkLabel(GetImageData(surface))
            /\ sklearn_prediction_pending' = FALSE
    /\ UNCHANGED <<normVars, appVars, workerVars, listenerVars, canvasVars, tfVars,
                   reqPipe, respPipe, is_waiting_tf_result>>

\* a variant of _on_tf_prediction without line 171, which clears the flag
OnTfPredictionKeepsPending ==
    /\ phase \in {"running", "closed"}
    /\ idle # << >>
    /\ Head(idle).cb = "tf"
    /\ idle' = Tail(idle)
    /\ tf_prediction_pending' = tf_prediction_pending
    /\ tf_preview_image' =
          IF Head(idle).result # None THEN Head(idle).result.image
          ELSE tf_preview_image
    /\ tf_predicted_label' = TfLabel(Head(idle).result)
    /\ tf_inflight' = None
    /\ UNCHANGED <<normVars, appVars, workerVars, listenerVars, canvasVars, skVars,
                   reqPipe, respPipe, is_waiting_tf_result>>

\* the idle source _on_tf_prediction(result), dispatched once and removed
OnTfPrediction ==
    /\ phase \in {"running", "closed"}
    /\ idle # << >>
    /\ Head(idle).cb = "tf"
    /\ idle' = Tail(idle)
    /\ tf_prediction_pending' = FALSE
    /\ tf_preview_image' =
          IF Head(idle).result # None THEN Head(idle).result.image
          ELSE tf_preview_image
    /\ tf_predicted_label' = TfLabel(Head(idle).result)
    /\ tf_inflight' = None
    /\ UNCHANGED <<normVars, appVars, workerVars, listenerVars, canvasVars, skVars,
                   reqPipe, respPipe, is_waiting_tf_result>>

\* MainWindow.do_close_request: the window closes
DoCloseRequest ==
    /\ phase = "running"
    /\ phase' = "closed"
    /\ is_waiting_tf_result' = FALSE
    /\ UNCHANGED <<normVars, model_engine, workerVars, listenerVars, canvasVars, skVars,
                   tfVars, reqPipe, respPipe, idle>>

\* a variant of on_shutdown that returns to the main loop without join, so
\* that the shutdown signal runs it again
OnShutdownRepeats ==
    /\ phase = "closed"
    /\ IF WorkerTerminated
       THEN phase' = "aborted" /\ UNCHANGED reqPipe
       ELSE phase' = "closed" /\ reqPipe' = Append(reqPipe, None)
    /\ UNCHANGED <<normVars, model_engine, workerVars, listenerVars, canvasVars, skVars,
                   tfVars, respPipe, idle, is_waiting_tf_result>>

\* DrawingApp.on_shutdown up to join: send(None) raises BrokenPipeError once
\* the worker process has ended, and join is then never called
OnShutdown ==
    /\ phase = "closed"
    /\ IF WorkerTerminated
       THEN phase' = "aborted" /\ UNCHANGED reqPipe
       ELSE phase' = "joining" /\ reqPipe' = Append(reqPipe, None)
    /\ UNCHANGED <<normVars, model_engine, workerVars, listenerVars, canvasVars, skVars,
                   tfVars, respPipe, idle, is_waiting_tf_result>>

\* DrawingApp.on_shutdown: tf_process.join() returns
Join ==
    /\ phase = "joining"
    /\ WorkerTerminated
    /\ phase' = "exited"
    /\ UNCHANGED <<normVars, model_engine, workerVars, listenerVars, canvasVars, skVars,
                   tfVars, reqPipe, respPipe, idle, is_waiting_tf_result>>

(***************************************************************************)
(* The worker process: _tf_worker(conn, model_engine).                     *)
(***************************************************************************)
\* what a worker step leaves alone
WorkerFrame ==
    UNCHANGED <<normVars, appVars, listenerVars, canvasVars, skVars, tfVars, idle,
                is_waiting_tf_result>>

\* lines 292-304: the backend is loaded (get_tf_model, get_ov_compiled_model
\* may raise, which ends the process), or no backend is selected and the
\* function returns
WorkerLoad(load_ok) ==
    /\ wpc = "loading"
    /\ wpc' = IF model_engine \in {"tf", "ov"}
              THEN IF load_ok THEN "recv" ELSE "failed"
              ELSE "returned"
    /\ reqPipe' = IF model_engine \in {"tf", "ov"} /\ load_ok
                  THEN reqPipe ELSE << >>
    /\ UNCHANGED <<w_task, predict_called, w_acks, w_late, respPipe>>
    /\ WorkerFrame

\* a variant of lines 307-309 that skips None and goes on receiving
WorkerRecvSkipsNone ==
    /\ wpc = "recv"
    /\ reqPipe # << >>
    /\ reqPipe' = Tail(reqPipe)
    /\ IF Head(reqPipe) = None
       THEN wpc' = "recv" /\ UNCHANGED w_task
       ELSE wpc' = "processing" /\ w_task' = Head(reqPipe)
    /\ UNCHANGED <<predict_called, w_acks, w_late, respPipe>>
    /\ WorkerFrame

\* a variant of lines 307-309 that takes the newest message and drops the
\* older ones
WorkerRecvNewest ==
    /\ wpc = "recv"
    /\ reqPipe # << >>
    /\ reqPipe' = << >>
    /\ IF reqPipe[Len(reqPipe)] = None
       THEN wpc' = "ack" /\ UNCHANGED w_task
       ELSE wpc' = "processing" /\ w_task' = reqPipe[Len(reqPipe)]
    /\ UNCHANGED <<predict_called, w_acks, w_late, respPipe>>
    /\ WorkerFrame

\* lines 307-309: conn.recv() returns a message; None leaves the loop
WorkerRecv ==
    /\ wpc = "recv"
    /\ reqPipe # << >>
    /\ reqPipe' = Tail(reqPipe)
    /\ IF Head(reqPipe) = None
       THEN wpc' = "ack" /\ UNCHANGED w_task
       ELSE wpc' = "processing" /\ w_task' = Head(reqPipe)
    /\ UNCHANGED <<predict_called, w_acks, w_late, respPipe>>
    /\ WorkerFrame

\* a variant of lines 311-322 that gives the task up without answering when
\* the stop request is already waiting
WorkerProcessAbandons ==
    /\ wpc = "processing"
    /\ IF reqPipe # << >> /\ Head(reqPipe) = None
       THEN UNCHANGED <<respPipe, predict_called, w_late>>
       ELSE /\ respPipe' = Append(respPipe, TfResult(w_task))
            /\ predict_called' = TfInvokes(w_task)
            /\ w_late' = (w_late \/ w_acks > 0)
    /\ w_task' = None
    /\ wpc' = "recv"
    /\ UNCHANGED <<w_acks, reqPipe>>
    /\ WorkerFrame

\* lines 311-322: normalise, infer unless the input is empty, answer
WorkerProcess ==
    /\ wpc = "processing"
    /\ respPipe' = Append(respPipe, TfResult(w_task))
    /\ predict_called' = TfInvokes(w_task)
    /\ w_late' = (w_late \/ w_acks > 0)
    /\ w_task' = None
    /\ wpc' = "recv"
    /\ UNCHANGED <<w_acks, reqPipe>>
    /\ WorkerFrame

\* a variant of lines 306-324 that acknowledges inside the loop and goes on
\* receiving
WorkerAckInLoop ==
    /\ wpc = "ack"
    /\ respPipe' = Append(respPipe, None)
    /\ w_acks' = w_acks + 1
    /\ wpc' = "recv"
    /\ UNCHANGED <<w_task, predict_called, w_late, reqPipe>>
    /\ WorkerFrame

\* lines 324-325: the sentinel is sent, the connection closed, the process ends
WorkerAck ==
    /\ wpc = "ack"
    /\ respPipe' = Append(respPipe, None)
    /\ w_acks' = w_acks + 1
    /\ wpc' = "stopped"
    /\ reqPipe' = << >>
    /\ UNCHANGED <<w_task, predict_called, w_late>>
    /\ WorkerFrame

\* the operating system kills the worker process (out of memory, a signal)
WorkerKilled ==
    /\ wpc \in {"loading", "recv", "processing", "ack"}
    /\ wpc' = "killed"
    /\ w_task' = None
    /\ reqPipe' = << >>
    /\ UNCHANGED <<predict_called, w_acks, w_late, respPipe>>
    /\ WorkerFrame

(***************************************************************************)
(* The listener thread: MainWindow.tf_result_waiter.                       *)
(***************************************************************************)
ListenerFrame ==
    UNCHANGED <<normVars, appVars, workerVars, canvasVars, skVars, tfVars, reqPipe,
                is_waiting_tf_result>>

\* lines 94-96: the loop test and poll(0.01), which is true when a message
\* waits or the worker's end is closed
ListenerPoll ==
    /\ lpc = "loop"
    /\ phase \in {"running", "closed", "joining"}
    /\ lpc' = IF ~is_waiting_tf_result THEN "done"
              ELSE IF respPipe # << >> \/ WorkerTerminated THEN "recv"
              ELSE "loop"
    /\ UNCHANGED <<respPipe, idle>>
    /\ ListenerFrame

\* a variant of lines 98-103 that calls _on_tf_prediction(result) itself, on
\* the listener thread
ListenerRecvDirect ==
    /\ lpc = "recv"
    /\ phase \in {"running", "closed", "joining"}
    /\ UNCHANGED idle
    /\ IF respPipe = << >>
       THEN lpc' = "raised" /\ UNCHANGED <<respPipe, tfVars>>
       ELSE /\ respPipe' = Tail(respPipe)
            /\ IF Head(respPipe) = None
               THEN lpc' = "done" /\ UNCHANGED tfVars
               ELSE /\ lpc' = "loop"
                    /\ tf_prediction_pending' = FALSE
                    /\ tf_preview_image' = Head(respPipe).image
                    /\ tf_predicted_label' = TfLabel(Head(respPipe))
                    /\ tf_inflight' = None
    /\ UNCHANGED <<normVars, appVars, workerVars, canvasVars, skVars, reqPipe,
                   is_waiting_tf_result>>

\* lines 98-103: recv() raises EOFError at end of stream; None ends the loop;
\* a result is handed to the UI thread with GLib.idle_add
ListenerRecv ==
    /\ lpc = "recv"
    /\ phase \in {"running", "closed", "joining"}
    /\ IF respPipe = << >>
       THEN lpc' = "raised" /\ UNCHANGED <<respPipe, idle>>
       ELSE /\ respPipe' = Tail(respPipe)
            /\ IF Head(respPipe) = None
               THEN lpc' = "done" /\ UNCHANGED idle
               ELSE /\ lpc' = "loop"
                    /\ idle' = Append(idle, TfCallback(Head(respPipe)))
    /\ ListenerFrame

(***************************************************************************)
(* The program.                                                            *)
(***************************************************************************)
Next ==
    \/ Activate
    \/ OnClear
    \/ \E width \in Dims, height \in Dims : OnResize(width, height)
    \/ \E c \in Cells, ink \in InkLevels : OnDragBegin(c, ink)
    \/ \E c \in Cells, ink \in InkLevels : OnDragUpdate(c, ink)
    \/ OnDragEnd
    \/ UpdateSklearnPrediction
    \/ OnTfPrediction
    \/ DoCloseRequest
    \/ OnShutdown
    \/ Join
    \/ \E load_ok \in BOOLEAN : WorkerLoad(load_ok)
    \/ WorkerRecv
    \/ WorkerProcess
    \/ WorkerAck
    \/ WorkerKilled
    \/ ListenerPoll
    \/ ListenerRecv

Spec == Init /\ [][Next]_vars

\* a step of the worker process as the program lets it run (not its being
\* killed)
WorkerStep ==
    \/ \E load_ok \in BOOLEAN : WorkerLoad(load_ok)
    \/ WorkerRecv
    \/ WorkerProcess
    \/ WorkerAck

\* The operating system keeps scheduling the worker process while it can take
\* a step, and join returns once the process has ended.
WorkerFairness == WF_vars(WorkerStep) /\ WF_vars(Join)

FairSpec == Spec /\ WorkerFairness

(***************************************************************************)
(* Properties.                                                             *)
(***************************************************************************)
IsSnapshot(m) == m # None
IsTfCallback(e) == e.cb = "tf"
IsSkCallback(e) == e = SkCallback

\* neural requests under way: snapshots on the request pipe, the one
\* _tf_worker holds, results on the response pipe, _on_tf_prediction callbacks
\* on the idle queue
Outstanding ==
    Len(SelectSeq(reqPipe, IsSnapshot)) + (IF w_task # None THEN 1 ELSE 0)
        + Len(SelectSeq(respPipe, IsSnapshot)) + Len(SelectSeq(idle, IsTfCallback))

\* statistical callbacks on the idle queue
SkQueued == Len(SelectSeq(idle, IsSkCallback))

\* the step in which the idle source at the head of the queue is dispatched
SkCallbackRuns == idle # << >> /\ Head(idle) = SkCallback /\ idle' = Tail(idle)
TfCallbackRuns == idle # << >> /\ Head(idle).cb = "tf" /\ idle' = Tail(idle)

\* C1: at most one neural request is outstanding; it is outstanding only
\* while _tf_prediction_pending is true; no step taken while the flag is true
\* puts a snapshot on the request pipe; and the flag goes from true to false
\* only in the step that delivers the result of the snapshot sent to
\* _on_tf_prediction, which leaves nothing outstanding.
C1_AtMostOneInFlight ==
    [][ /\ Outstanding' <= 1
        /\ (Outstanding' = 1 => tf_prediction_pending')
        /\ (tf_prediction_pending =>
               Len(SelectSeq(reqPipe', IsSnapshot)) <= Len(SelectSeq(reqPipe, IsSnapshot)))
        /\ (tf_prediction_pending /\ ~tf_prediction_pending' =>
               /\ TfCallbackRuns
               /\ tf_inflight # None
               /\ Head(idle).result.image.data = tf_inflight.data
               /\ Outstanding = 1
               /\ Outstanding' = 0)
      ]_vars

\* C1 witness: a request is outstanding (its callback is queued) and the
\* canvas has changed since it was sent, so an update was dropped meanwhile
C1_Witness ==
    /\ tf_prediction_pending
    /\ Outstanding = 1
    /\ Len(SelectSeq(idle, IsTfCallback)) = 1
    /\ surface # None
    /\ tf_inflight # None
    /\ tf_inflight.data # surface.data

\* some byte of the image differs from white, so its normalized value
\* (255 - byte) / scale is not zero
SomeNonZero(image) == \E i \in DOMAIN image.data : 255 - image.data[i] # 0

\* the step in which _tf_worker answers the task it holds
WorkerAnswers == wpc = "processing" /\ wpc' = "recv"

Last(seq) == seq[Len(seq)]

\* C2: a run of the statistical callback on a surface calls self._clf.predict
\* exactly when some normalized value is non-zero, and otherwise sets the
\* placeholder; the worker calls predict for a task exactly when some
\* normalized value is non-zero, and otherwise answers (image_28x28, None).
C2_EmptyInputSuppression ==
    [][ /\ (SkCallbackRuns /\ surface # None =>
               /\ clf_called' = SomeNonZero(surface)
               /\ (sklearn_predicted_label' = Placeholder) = ~SomeNonZero(surface))
        /\ (WorkerAnswers =>
               /\ predict_called' = SomeNonZero(w_task)
               /\ Len(respPipe') = Len(respPipe) + 1
               /\ Last(respPipe') # None
               /\ Last(respPipe').image.data = w_task.data
               /\ (Last(respPipe').predicted_digits = None) = ~SomeNonZero(w_task))
      ]_vars

\* C2 witness: the statistical callback has run on an inked surface and
\* called the classifier, while the worker has answered a blank task with
\* (image_28x28, None) without calling predict
C2_Witness ==
    /\ sklearn_preview_image # None
    /\ SomeNonZero(sklearn_preview_image)
    /\ clf_called
    /\ sklearn_predicted_label # Placeholder
    /\ ~predict_called
    /\ respPipe # << >>
    /\ Head(respPipe) # None
    /\ Head(respPipe).predicted_digits = None

\* C3: the worker sends a sentinel only from the position it reaches by
\* receiving None in the loop, then it is stopped; it sends at most one
\* sentinel, no result after a sentinel, and nothing at all once stopped.
C3_ShutdownHandshakeSafety ==
    [][ /\ w_acks' <= 1
        /\ ~w_late'
        /\ (w_acks' >= 1 => wpc' = "stopped")
        /\ (wpc' = "ack" /\ wpc # "ack" =>
               wpc = "recv" /\ reqPipe # << >> /\ Head(reqPipe) = None)
        /\ (w_acks' # w_acks =>
               /\ wpc = "ack"
               /\ w_acks' = w_acks + 1
               /\ respPipe' = Append(respPipe, None))
        /\ (wpc = "stopped" => wpc' = "stopped" /\ Len(respPipe') <= Len(respPipe))
      ]_vars

\* C3 witness: the worker has stopped after answering a task and then
\* acknowledging the sentinel; both messages are still unread
C3_Witness ==
    /\ wpc = "stopped"
    /\ w_acks = 1
    /\ Len(respPipe) = 2
    /\ respPipe[1] # None
    /\ respPipe[2] = None

\* C4: once on_shutdown has sent the sentinel and waits in join, the worker
\* process ends and join returns, whatever the worker and the listener were
\* doing.
C4_ShutdownTerminates ==
    (phase = "joining") ~> (phase = "exited" /\ WorkerTerminated)

\* C4 witness: join has returned after the worker, which held a task when the
\* sentinel was sent, answered it and acknowledged; the listener had stopped
\* and both messages are unread
C4_Witness ==
    /\ phase = "exited"
    /\ wpc = "stopped"
    /\ lpc = "done"
    /\ Len(respPipe) = 2
    /\ respPipe[1] # None

\* nothing is queued or under way: no idle callback, no message on either
\* pipe, no task in the worker, while the UI, the worker and the listener run
Quiescent ==
    /\ phase = "running"
    /\ wpc = "recv"
    /\ lpc = "loop"
    /\ idle = << >>
    /\ reqPipe = << >>
    /\ respPipe = << >>
    /\ w_task = None

\* C5 (the claim as stated): after clear() on a surface and no drag event
\* since, once everything queued or in flight has been delivered, both labels
\* show the placeholder.
C5_ClearShowsNoPrediction ==
    after_clear /\ surface # None /\ Quiescent =>
        /\ sklearn_predicted_label = Placeholder
        /\ tf_predicted_label = Placeholder

\* the statistical half of C5, which the code keeps
C5_StatisticalHalf ==
    after_clear /\ surface # None /\ Quiescent =>
        sklearn_predicted_label = Placeholder

\* what a snapshot leads to downstream: the 28x28 image with its content and
\* a confidence vector exactly when the snapshot has ink
DerivedFrom(result, snapshot) ==
    /\ result # None
    /\ result.image = [width |-> 28, height |-> 28, data |-> snapshot.data]
    /\ (result.predicted_digits = None) = (\A i \in Cells : snapshot.data[i] = 255)
    /\ (result.predicted_digits # None =>
           result.predicted_digits.probs = TfPredict(TfFloats(snapshot.data)))

\* C6: whatever is on the neural path (the request read next by the worker,
\* the task it holds, the result read next by the listener, the callback
\* queued) belongs to the one snapshot sent and not yet delivered, so results
\* are delivered in the order of the sends and each is derived from the
\* snapshot it answers.
C6_SequentialOrdering ==
    /\ \A i \in DOMAIN reqPipe :
          reqPipe[i] # None => reqPipe[i] = tf_inflight
    /\ (w_task # None => w_task = tf_inflight)
    /\ \A i \in DOMAIN respPipe :
          respPipe[i] # None =>
              tf_inflight # None /\ DerivedFrom(respPipe[i], tf_inflight)
    /\ \A i \in DOMAIN idle :
          idle[i].cb = "tf" =>
              tf_inflight # None /\ DerivedFrom(idle[i].result, tf_inflight)

\* C6 witness: the callback of a result with a confidence vector is queued
\* while the canvas has since been cleared
C6_Witness ==
    /\ idle # << >>
    /\ Head(idle).cb = "tf"
    /\ Head(idle).result.predicted_digits # None
    /\ surface # None
    /\ surface.data = Blank
    /\ tf_inflight.data # Blank

\* C7: at most one statistical callback is queued, one is queued only while
\* the statistical flag is true, and no step taken while the flag is true
\* queues another.
C7_StatisticalCoalescing ==
    [][ /\ SkQueued' <= 1
        /\ (SkQueued' = 1 => sklearn_prediction_pending')
        /\ (sklearn_prediction_pending => SkQueued' <= SkQueued)
      ]_vars

\* C7 witness: the callback scheduled by the first clear() has not run yet
\* (no preview was ever set) and a drag update has since inked every cell
C7_Witness ==
    /\ SkQueued = 1
    /\ sklearn_preview_image = None
    /\ surface # None
    /\ \A i \in Cells : surface.data[i] = Black

\* C8 (the claim as stated): every run of the statistical callback leaves
\* the statistical flag false.
C8_CallbackClearsPending ==
    [][SkCallbackRuns => ~sklearn_prediction_pending']_vars

\* C9 (the claim as stated): the listener never ends in an unhandled error;
\* when the worker's end closes without a sentinel it ends in a state of its
\* own, "unavailable".
C9_ListenerHandlesDisconnect ==
    /\ lpc # "raised"
    /\ (w_acks = 0 /\ WorkerTerminated /\ respPipe = << >>
            /\ lpc \notin {"unstarted", "loop", "recv", "done"}
          => lpc = "unavailable")

\* C10 (the claim as stated): the UI never runs while the worker has ended
\* without entering its receive loop because no backend was loaded.
C10_LoadFailureFailsStartup ==
    phase = "running" => wpc \notin {"failed", "returned"}

\* the snapshots the UI has sent and the worker has not answered yet
SentSnapshots ==
    {reqPipe[i] : i \in {j \in DOMAIN reqPipe : reqPipe[j] # None}}
        \cup (IF w_task # None THEN {w_task} ELSE {})
        \cup (IF tf_inflight # None THEN {tf_inflight} ELSE {})

\* C11: every snapshot the UI sends on the request channel has a width and a
\* height greater than zero, whatever resize (non-positive sizes included),
\* drag and clear events came before.
C11_NoMalformedSnapshot ==
    \A m \in SentSnapshots : m.width > 0 /\ m.height > 0

\* a snapshot of a drawn canvas is on its way to the worker
C11_Witness ==
    /\ reqPipe # << >>
    /\ Head(reqPipe) # None
    /\ Head(reqPipe).width > 0
    /\ Head(reqPipe).height > 0
    /\ Head(reqPipe).data # Blank

(***************************************************************************)
(* _tf_worker as a unit: the process run with any model_engine, fed by a   *)
(* sender that does not wait for answers and read by a reader, both on the *)
(* parent end of the pipe.                                                 *)
(***************************************************************************)
\* messages the pipe and the worker hold at most
MaxQueue == 3

\* values of model_engine: the two _tf_worker knows and another one
Engines == {"tf", "ov", "onnx"}

\* snapshots a sender can send
SnapshotInputs == {ImageOf(200, 200, d) : d \in [Cells -> {Black, White}]}

UnitFrame ==
    UNCHANGED <<normVars, appVars, workerVars, listenerVars, canvasVars, skVars,
                tfVars, idle, is_waiting_tf_result>>

\* parent_conn.send(image), not waiting for the answer to the one before
SenderSends(image) ==
    /\ ~WorkerTerminated
    /\ Len(reqPipe) + Len(respPipe) + (IF w_task # None THEN 1 ELSE 0) < MaxQueue
    /\ reqPipe' = Append(reqPipe, image)
    /\ UNCHANGED respPipe
    /\ UnitFrame

\* parent_conn.send(None), once
SenderStops ==
    /\ ~WorkerTerminated
    /\ wpc # "ack"
    /\ \A i \in DOMAIN reqPipe : reqPipe[i] # None
    /\ reqPipe' = Append(reqPipe, None)
    /\ UNCHANGED respPipe
    /\ UnitFrame

\* parent_conn.recv() of the oldest answer
ReaderReads ==
    /\ respPipe # << >>
    /\ respPipe' = Tail(respPipe)
    /\ UNCHANGED reqPipe
    /\ UnitFrame

WorkerInit ==
    /\ \E engine \in Engines : InitWith(engine)
    /\ norm_in = None
    /\ norm_out = None

WorkerNext ==
    \/ \E image \in SnapshotInputs : SenderSends(image)
    \/ SenderStops
    \/ ReaderReads
    \/ \E load_ok \in BOOLEAN : WorkerLoad(load_ok)
    \/ WorkerRecv
    \/ WorkerProcess
    \/ WorkerAck
    \/ WorkerKilled

WorkerSpec == WorkerInit /\ [][WorkerNext]_vars

\* C12 (the claim as stated): for every model_engine, when _tf_worker has
\* returned it has received None and has sent the sentinel that
\* acknowledges it.
C12_StopsOnlyViaSentinel ==
    wpc \in {"stopped", "returned"} => w_acks = 1

\* what holds instead: the worker leaves its receive loop only on None, and
\* then sends the sentinel before it ends
C12_LoopLeftOnlyViaSentinel ==
    [][ /\ (wpc \in {"recv", "processing"} /\ wpc' \notin {"recv", "processing", "killed"}
              => wpc' = "ack" /\ reqPipe # << >> /\ Head(reqPipe) = None)
        /\ (wpc' = "stopped" /\ wpc # "stopped"
              => wpc = "ack" /\ respPipe' = Append(respPipe, None))
      ]_vars

\* C18: whatever the sender queues, the worker takes the oldest message and
\* only while it holds no task; it holds a task only between taking it and
\* answering it; an answer is one message appended to the response pipe,
\* derived from the task held, which the worker then gives up; and a result
\* is put on the response pipe by no other step.  So the results sent are
\* the snapshots fully processed, one each, in the order received.
C18_SequentialFifo ==
    [][ /\ (wpc = "recv" /\ wpc' = "processing" =>
               /\ w_task = None
               /\ reqPipe # << >>
               /\ w_task' = Head(reqPipe)
               /\ reqPipe' = Tail(reqPipe)
               /\ respPipe' = respPipe)
        /\ (w_task' # None => wpc' = "processing")
        /\ (w_task' # w_task /\ w_task' # None => wpc = "recv")
        /\ (WorkerAnswers =>
               /\ w_task # None
               /\ respPipe' # << >>
               /\ respPipe' = Append(respPipe, Last(respPipe'))
               /\ DerivedFrom(Last(respPipe'), w_task)
               /\ w_task' = None
               /\ reqPipe' = reqPipe)
        /\ (Len(SelectSeq(respPipe', IsSnapshot)) > Len(SelectSeq(respPipe, IsSnapshot))
               => WorkerAnswers)
      ]_vars

\* two snapshots sent back to back were answered in the order sent while a
\* third one waits
C18_Witness ==
    /\ wpc = "recv"
    /\ Len(respPipe) = 2
    /\ respPipe[1] # None
    /\ respPipe[2] # None
    /\ respPipe[1].image.data = Blank
    /\ respPipe[2].image.data # Blank
    /\ reqPipe # << >>
    /\ Head(reqPipe) # None

\* the listener has read the worker's sentinel
ListenerGotSentinel == w_acks > 0 /\ \A i \in DOMAIN respPipe : respPipe[i] # None

\* C13 (the claim as stated): the listener thread has ended only if the stop
\* flag was set false or it has read the sentinel.
C13_ListenerTermination ==
    lpc \in {"done", "raised"} => (~is_waiting_tf_result \/ ListenerGotSentinel)

\* what holds of the listener: after reading the sentinel it hands nothing
\* more to the UI thread, and it leaves its loop without an error only on the
\* stop flag or the sentinel
C13_NothingAfterSentinel ==
    [][ /\ (lpc = "done" => idle' = idle \/ Len(idle') < Len(idle))
        /\ (lpc # "done" /\ lpc' = "done" =>
               \/ ~is_waiting_tf_result
               \/ (respPipe # << >> /\ Head(respPipe) = None))
      ]_vars

\* the flags and the presentation slots of the window
UiSlots ==
    <<sklearn_prediction_pending, tf_prediction_pending, sklearn_predicted_label,
      tf_predicted_label, sklearn_preview_image, tf_preview_image>>

\* a step of the listener thread, of the worker process
ListenerMoves == lpc # "unstarted" /\ lpc' # lpc
WorkerMoves == wpc' # wpc

\* C14: no step of the listener thread or of the worker process writes a
\* pending flag, a label or a preview; the worker leaves the idle queue
\* alone, and all the listener does to the UI is to append _on_tf_prediction
\* with the result it has just read to the idle queue.
C14_UiStateOnUiThread ==
    [][ /\ (ListenerMoves \/ WorkerMoves => UNCHANGED UiSlots)
        /\ (WorkerMoves => idle' = idle)
        /\ (ListenerMoves =>
               \/ idle' = idle
               \/ /\ respPipe # << >>
                  /\ Head(respPipe) # None
                  /\ idle' = Append(idle, TfCallback(Head(respPipe))))
      ]_vars

\* the listener has queued a result with a prediction and the label does not
\* show it yet
C14_Witness ==
    /\ lpc = "loop"
    /\ idle # << >>
    /\ Head(idle).cb = "tf"
    /\ Head(idle).result.predicted_digits # None
    /\ tf_predicted_label = Placeholder
    /\ tf_prediction_pending

\* the messages of a pipe after its first None
AfterSentinel(pipe) ==
    {i \in DOMAIN pipe : \E j \in DOMAIN pipe : j < i /\ pipe[j] = None}

\* C15: the worker leaves the processing of a task (unless the process is
\* killed) only by sending the result derived from it; it holds no task when
\* it has received the sentinel; and the acknowledgement is sent with no task
\* held and is the last message on the response pipe, so the result of every
\* snapshot received before the sentinel precedes it.
C15_ShutdownKeepsInference ==
    [][ /\ (wpc = "processing" /\ wpc' \notin {"processing", "killed"} =>
               /\ wpc' = "recv"
               /\ respPipe' # << >>
               /\ respPipe' = Append(respPipe, Last(respPipe'))
               /\ DerivedFrom(Last(respPipe'), w_task))
        /\ (wpc' \in {"ack", "stopped"} => w_task' = None)
        /\ (w_acks' > w_acks => w_task = None /\ respPipe' = Append(respPipe, None))
        /\ AfterSentinel(respPipe') = {}
        /\ ~w_late'
      ]_vars

\* on_shutdown has sent the sentinel while the worker is processing a snapshot
C15_Witness ==
    /\ phase = "joining"
    /\ wpc = "processing"
    /\ w_task # None
    /\ reqPipe = <<None>>

\* C16: once on_shutdown has sent the sentinel the request pipe gets no
\* further message, so the sentinel is the last message ever sent; and once
\* the worker has received the sentinel it receives and processes nothing.
C16_NoRequestAfterStop ==
    [][ /\ (phase \in {"joining", "exited"} => Len(reqPipe') <= Len(reqPipe))
        /\ (\E i \in DOMAIN reqPipe : reqPipe[i] = None) => Len(reqPipe') <= Len(reqPipe)
        /\ AfterSentinel(reqPipe') = {}
        /\ (wpc \in {"ack", "stopped"} =>
               /\ wpc' \in {"ack", "stopped", "killed"}
               /\ w_task' = None
               /\ Len(SelectSeq(respPipe', IsSnapshot)) <= Len(SelectSeq(respPipe, IsSnapshot)))
      ]_vars

\* the worker has received the sentinel after a drawing was sent to it
C16_Witness ==
    /\ phase = "joining"
    /\ wpc = "ack"
    /\ reqPipe = << >>
    /\ predict_called
    /\ surface # None
    /\ surface.data # Blank

(***************************************************************************)
(* The three normalizations, each applied to every value of a byte.        *)
(***************************************************************************)
\* "sk": _update_sklearn_prediction of main.py; "tf": _tf_worker of main.py;
\* "dd": _update_prediction of draw_digits/main.py
NormSites == {"sk", "tf", "dd"}
Bytes == 0..255

\* the list comprehension of a site applied to one byte
Normalize ==
    /\ norm_in # None
    /\ norm_out = None
    /\ norm_out' =
          CASE norm_in.site = "sk" -> SkFloats(<<norm_in.byte>>)[1]
            [] norm_in.site = "tf" -> TfFloats(<<norm_in.byte>>)[1]
            [] norm_in.site = "dd" -> DdFloats(<<norm_in.byte>>)[1]
    /\ UNCHANGED <<norm_in, appVars, workerVars, listenerVars, canvasVars, skVars,
                   tfVars, reqPipe, respPipe, idle, is_waiting_tf_result>>

NormInit ==
    /\ InitWith(AppEngine)
    /\ norm_in \in [site : NormSites, byte : Bytes]
    /\ norm_out = None

NormNext == Normalize

NormSpec == NormInit /\ [][NormNext]_vars

\* the value (255 - b) / scale the claim gives for byte b, as an equation
\* f = (255 - b) / scale on the exact quotient f
IsInverted(f, b, scale) == f.num * scale = (255 - b) * f.den

\* C17 (the claim as stated): at each of the three sites the float computed
\* from byte b equals (255 - b) / scale, with scale 16 at the two 64-feature
\* sites and 255 at the 784-feature site; it lies in [0, 255 / scale], is 0
\* for a white byte and 255 / scale for a black one.
C17_Normalization ==
    norm_out # None =>
        LET scale == IF norm_in.site = "tf" THEN 255 ELSE 16
        IN  /\ IsInverted(norm_out, norm_in.byte, scale)
            /\ norm_out.num >= 0
            /\ norm_out.num * scale <= 255 * norm_out.den
            /\ (norm_in.byte = 255 => norm_out.num = 0)
            /\ (norm_in.byte = 0 => IsInverted(norm_out, 0, scale))

\* what holds: the two sites of main.py compute (255 - b) / scale, and the
\* site of draw_digits/main.py its integer part
C17_MainSitesInvert ==
    norm_out # None =>
        /\ (norm_in.site = "sk" => IsInverted(norm_out, norm_in.byte, 16))
        /\ (norm_in.site = "tf" => IsInverted(norm_out, norm_in.byte, 255))
        /\ (norm_in.site = "dd" =>
               /\ norm_out.den = 1
               /\ norm_out.num * 16 <= 255 - norm_in.byte
               /\ 255 - norm_in.byte < (norm_out.num + 1) * 16)

(***************************************************************************)
(* Scheduling of the listener thread and of the idle callbacks.            *)
(***************************************************************************)
\* a step of the tf_result_waiter thread
ListenerStep == ListenerPoll \/ ListenerRecv

\* the GTK main loop dispatching the idle source at the head of its queue
IdleStep == UpdateSklearnPrediction \/ OnTfPrediction

\* The listener thread keeps being scheduled while it can take a step, and
\* the main loop keeps dispatching idle sources while some are queued.
UiFairness == WF_vars(ListenerStep) /\ WF_vars(IdleStep)

LiveSpec == Spec /\ WorkerFairness /\ UiFairness

\* a handler that calls update_prediction on an existing surface
DrawingUpdate ==
    /\ surface' # None
    /\ \/ \E c \in Cells, ink \in InkLevels : OnDragUpdate(c, ink)
       \/ OnDragEnd
       \/ OnClear
       \/ \E width \in Dims, height \in Dims :
             width > 0 /\ height > 0 /\ OnResize(width, height)

\* C19: a neural flag that is true leads to the flag being false, by a run
\* of _on_tf_prediction, unless the worker has ended or the listener has
\* stopped; and a drawing update made while the flag is false and the worker
\* is alive sets the flag and sends a snapshot of the surface as it is then.
C19_Recovery ==
    /\ [][ /\ (tf_prediction_pending /\ ~tf_prediction_pending' => TfCallbackRuns)
           /\ (~tf_prediction_pending /\ ~WorkerTerminated /\ DrawingUpdate =>
                  /\ tf_prediction_pending'
                  /\ Len(reqPipe') = Len(reqPipe) + 1
                  /\ Last(reqPipe') # None
                  /\ Last(reqPipe').data = surface'.data)
         ]_vars
    /\ (tf_prediction_pending ~>
           (~tf_prediction_pending \/ WorkerTerminated \/ lpc \in {"done", "raised"}))

\* a result was delivered, and the drawing update after it sent a snapshot
\* of the changed canvas
C19_Witness ==
    /\ tf_prediction_pending
    /\ ~WorkerTerminated
    /\ tf_inflight # None
    /\ tf_preview_image # None
    /\ tf_predicted_label # Placeholder
    /\ tf_inflight.data # tf_preview_image.data

\* C20: a run of the statistical callback leaves the neural flag, label and
\* preview unchanged; a run of _on_tf_prediction leaves the statistical flag,
\* label and preview unchanged; and a drawing update made while the
\* statistical flag is false sets it and queues the statistical callback,
\* whether or not a neural request is outstanding.
C20_IndependentLifecycles ==
    [][ /\ (SkCallbackRuns =>
               UNCHANGED <<tf_prediction_pending, tf_predicted_label, tf_preview_image>>)
        /\ (TfCallbackRuns =>
               UNCHANGED <<sklearn_prediction_pending, sklearn_predicted_label,
                           sklearn_preview_image>>)
        /\ (~sklearn_prediction_pending /\ DrawingUpdate =>
               /\ sklearn_prediction_pending'
               /\ idle' = Append(idle, SkCallback))
      ]_vars

\* while the neural request for a drawing is outstanding the statistical
\* callback has run on that drawing, and the next drawing update has queued
\* it again
C20_Witness ==
    /\ tf_prediction_pending
    /\ Outstanding = 1
    /\ tf_inflight # None
    /\ tf_inflight.data # Blank
    /\ sklearn_prediction_pending
    /\ SkQueued = 1
    /\ sklearn_preview_image # None
    /\ sklearn_preview_image.data = tf_inflight.data
    /\ surface # None
    /\ surface.data # tf_inflight.data

\* no gesture is under way and no statistical callback waits on the idle
\* queue
DrawingSettled == last_point = None /\ SkQueued = 0

\* C21 (the claim as stated): with a surface present, once drawing events
\* have stopped and the idle queue holds no statistical callback, the
\* statistical label is the prediction for the canvas as it is.
C21_LabelOfFinalCanvas ==
    surface # None /\ DrawingSettled => sklearn_predicted_label = SkLabel(surface)

\* what holds: a run of the statistical callback on a surface shows the
\* preview and the label of the surface as it is when the callback runs, and
\* the label is that of the settled canvas whenever the statistical flag is
\* false
C21_SampledAtExecution ==
    [][ /\ (SkCallbackRuns /\ surface # None =>
               /\ sklearn_predicted_label' = SkLabel(surface)
               /\ sklearn_preview_image' = SkPreview(surface))
        /\ (surface' # None /\ DrawingSettled' /\ ~sklearn_prediction_pending' =>
               sklearn_predicted_label' = SkLabel(surface'))
      ]_vars

=============================================================================
